---- MODULE Spec2Model ----
(***************************************************************************)
(* Order processing of the storefront backend: the order routes            *)
(* (POST / and PATCH /:id/cancel), the admin order-status and bulk-update  *)
(* routes, the product / order tables they read and write through Prisma,  *)
(* and the connection manager (class DatabaseConnection).                  *)
(*                                                                         *)
(* Money is kept in integer hundredths of the currency unit.               *)
(* Every step of a request handler is one data-store round trip together   *)
(* with the synchronous code that runs when its await resumes.             *)
(***************************************************************************)
EXTENDS Integers, Sequences, FiniteSets, TLC

\* ------------------------------------------------------------------------
\* Bounds of the model
\* ------------------------------------------------------------------------
MaxStock == 1
MaxQty == 1
MaxCalls == 3
MaxUpdates == 1
MaxOutage == 7
MaxHandles == 2
MaxDbCalls == 2

\* ------------------------------------------------------------------------
\* Program constants
\* ------------------------------------------------------------------------
Cents == 100
FreeShippingThreshold == 500
FlatShipping == 50
TaxPercent == 18
MaxRetries == 5
BackoffUnit == 2000

\* ------------------------------------------------------------------------
\* Small universes of identifiers
\* ------------------------------------------------------------------------
Clients == {"c1", "c2"}
Users == {"u1", "u2"}
Addresses == {"a1"}
AddressOwner == [a \in Addresses |-> "u1"]
Products == {"p1", "p2"}
ProductIds == Products \cup {"p0"}
AddressIds == Addresses \cup {""}
PaymentMethods == {"", "COD"}
Statuses == {"PENDING", "CONFIRMED", "SHIPPED", "DELIVERED", "CANCELLED"}
\* ORD-<Date.now()>-<random suffix>: one millisecond, two suffixes, so that
\* two calls can draw the same number
OrderNumbers == {<<1, "AAAAAA">>, <<1, "AAAAAB">>}
CatalogPrice == [p \in Products |-> IF p = "p1" THEN 49900 ELSE 50000]

Tasks == {"t1", "t2"}

Lines == [productId : ProductIds, quantity : 1..MaxQty]
\* carts of at most one line, on product p1 or on an unknown product
Carts1 == {<<>>} \cup {<<a>> : a \in {l \in Lines : l.productId \in {"p1", "p0"}}}
\* carts of at most two lines on any product
Carts2 == {<<>>} \cup {<<a>> : a \in Lines} \cup {<<a, b>> : a \in Lines, b \in Lines}

\* carts of one line on product p1 whose quantity may be zero or negative
MinQty == -1
LinesAny == [productId : {"p1"}, quantity : MinQty..MaxQty]
CartsAny == {<<>>} \cup {<<a>> : a \in LinesAny}

\* the values a bulk update may carry: the decimal numerals "0" and "1.50"
BulkValues == {[units |-> 0, hundredths |-> 0], [units |-> 1, hundredths |-> 50]}
BulkProductIds == {{}, {"p1"}}
BulkActions == {"activate", "deactivate", "updatePrice", "updateStock", "archive"}

VARIABLES
    stock,      \* product table: stock of each product
    price,      \* product table: catalog price of each product
    isActive,   \* product table: isActive flag of each product
    orders,     \* order table with its order items; an order's id is its index
    stock0,     \* the stock each product had at the start (never written)
    pc,         \* where each client's request handler is
    req,        \* the request each client's handler is serving
    loc,        \* the handler's local variables
    resp,       \* the last response sent to a client
    calls,      \* number of client requests received so far
    updates,    \* number of admin status updates received so far
    prisma,     \* DatabaseConnection.prisma: 0 is null, n > 0 the n-th client made
    isConnected,        \* DatabaseConnection.isConnected
    connectionRetries,  \* DatabaseConnection.connectionRetries
    timers,     \* number of intervals registered by setupAutoReconnect
    handles,    \* number of data-store clients constructed so far
    task,       \* the asynchronous calls into the connection manager
    outage,     \* number of connection attempts and probes the data store
                \* may still reject
    dbcalls     \* number of calls into the connection manager so far

conn == <<prisma, isConnected, connectionRetries, timers, handles, task, outage, dbcalls>>
shop == <<stock, price, isActive, orders, stock0, pc, req, loc, resp, calls, updates>>
vars == <<stock, price, isActive, orders, stock0, pc, req, loc, resp, calls, updates,
          prisma, isConnected, connectionRetries, timers, handles, task, outage, dbcalls>>
store == <<stock, price, isActive, orders>>

NoReq == [op |-> "none", userId |-> "", addressId |-> "", paymentMethod |-> "",
          items |-> <<>>, id |-> 0]
NoLoc == [i |-> 0, orderItems |-> <<>>, orderNumber |-> <<>>]
NoResp == [code |-> "none", order |-> 0]

\* ------------------------------------------------------------------------
\* Pricing (createOrder)
\* ------------------------------------------------------------------------
RECURSIVE Subtotal(_)
Subtotal(items) ==
    IF items = <<>> THEN 0
    ELSE Head(items).price * Head(items).quantity + Subtotal(Tail(items))

ShippingCostStrict(subtotal) ==
    IF subtotal > FreeShippingThreshold * Cents THEN 0 ELSE FlatShipping * Cents

\* subtotal >= 500 ? 0 : 50
ShippingCost(subtotal) ==
    IF subtotal >= FreeShippingThreshold * Cents THEN 0 ELSE FlatShipping * Cents

\* Math.round(subtotal * 0.18 * 100) / 100, in hundredths
TaxAmount(subtotal) == (subtotal * TaxPercent + 50) \div 100

TotalAmountNoTax(subtotal) == subtotal + ShippingCost(subtotal)

\* subtotal + shippingCost + taxAmount
TotalAmount(subtotal) == subtotal + ShippingCost(subtotal) + TaxAmount(subtotal)

\* ------------------------------------------------------------------------
\* The data store: writes, and prisma.$transaction
\* ------------------------------------------------------------------------
InitialStatus == "PENDING"

OrderNumberNeverTaken(os, n) == FALSE

\* the unique constraint on Order.orderNumber
OrderNumberTaken(os, n) == \E i \in DOMAIN os : os[i].orderNumber = n

CreateWrite(data) == [op |-> "create", data |-> data, productId |-> "", by |-> 0,
                      id |-> 0, status |-> ""]
StockWrite(productId, by) == [op |-> "stock", data |-> <<>>, productId |-> productId,
                              by |-> by, id |-> 0, status |-> ""]
StatusWrite(id, status) == [op |-> "status", data |-> <<>>, productId |-> "", by |-> 0,
                            id |-> id, status |-> status]

\* a write is rejected by the data store
WriteThrows(db, w) ==
    CASE w.op = "create" -> OrderNumberTaken(db.orders, w.data.orderNumber)
      [] w.op = "stock" -> w.productId \notin DOMAIN db.stock
      [] w.op = "status" -> w.id \notin DOMAIN db.orders

ApplyWrite(db, w) ==
    CASE w.op = "create" -> [db EXCEPT !.orders = Append(@, w.data)]
      [] w.op = "stock" -> [db EXCEPT !.stock[w.productId] = @ + w.by]
      [] w.op = "status" -> [db EXCEPT !.orders[w.id].status = w.status]

\* the callback of a transaction run on a private view of the data store;
\* abortAt = n > 0: the n-th round trip (the commit is the last) is cut
RECURSIVE RunWrites(_, _, _, _)
RunWrites(db, ws, n, abortAt) ==
    IF n = abortAt THEN [db |-> db, failed |-> TRUE]
    ELSE IF n > Len(ws) THEN [db |-> db, failed |-> FALSE]
    ELSE IF WriteThrows(db, ws[n]) THEN [db |-> db, failed |-> TRUE]
    ELSE RunWrites(ApplyWrite(db, ws[n]), ws, n + 1, abortAt)

TransactionNoRollback(db, ws, abortAt) == RunWrites(db, ws, 1, abortAt)

\* prisma.$transaction: all writes of the callback, or none when it throws.
\* Stock updates are relative (decrement / increment), so the writes of a
\* transaction are applied to the committed tables at its commit.
Transaction(db, ws, abortAt) ==
    LET r == RunWrites(db, ws, 1, abortAt)
    IN  IF r.failed THEN [db |-> db, failed |-> TRUE] ELSE r

RECURSIVE StockWrites(_, _)
StockWrites(items, sign) ==
    IF items = <<>> THEN <<>>
    ELSE <<StockWrite(Head(items).productId, sign * Head(items).quantity)>>
         \o StockWrites(Tail(items), sign)

\* writes of the createOrder transaction: order with its items, then one
\* stock decrement per requested item
CreateWrites(data, items) == <<CreateWrite(data)>> \o StockWrites(items, -1)

CancelWritesNoRestore(id, items) == <<StatusWrite(id, "CANCELLED")>>

\* writes of the cancelOrder transaction: status to CANCELLED, then one stock
\* increment per order item
CancelWrites(id, items) == <<StatusWrite(id, "CANCELLED")>> \o StockWrites(items, 1)

Db == [orders |-> orders, stock |-> stock]

\* ------------------------------------------------------------------------
\* POST /  (createOrder)
\* ------------------------------------------------------------------------
\* order ids a request may name: the orders that exist and one that does not
OrderIds == 1..(Len(orders) + 1)

Respond(c, code, order) ==
    /\ pc' = [pc EXCEPT ![c] = "idle"]
    /\ req' = [req EXCEPT ![c] = NoReq]
    /\ loc' = [loc EXCEPT ![c] = NoLoc]
    /\ resp' = [code |-> code, order |-> order]

AddressFoundAnyOwner(addressId, userId) == addressId \in Addresses

\* address.findFirst({ id: addressId, userId })
AddressFound(addressId, userId) ==
    /\ addressId \in Addresses
    /\ AddressOwner[addressId] = userId

\* express-validator checks and the address ownership lookup (no modelled
\* operation writes the address book, so the lookup is taken in the same step)
CreateOrderBegin(c, carts) ==
    /\ pc[c] = "idle"
    /\ calls < MaxCalls
    /\ calls' = calls + 1
    /\ \E userId \in Users, addressId \in AddressIds, items \in carts,
          paymentMethod \in PaymentMethods :
          IF items = <<>> \/ addressId = "" \/ paymentMethod = ""
          THEN Respond(c, "validation", 0)
          ELSE IF ~AddressFound(addressId, userId)
          THEN Respond(c, "addressNotFound", 0)
          ELSE /\ pc' = [pc EXCEPT ![c] = "items"]
               /\ req' = [req EXCEPT ![c] = [op |-> "create", userId |-> userId,
                              addressId |-> addressId, paymentMethod |-> paymentMethod,
                              items |-> items, id |-> 0]]
               /\ loc' = [loc EXCEPT ![c] = [NoLoc EXCEPT !.i = 1]]
               /\ UNCHANGED resp
    /\ UNCHANGED <<conn, store, stock0, updates>>

StockTooLowOffByOne(available, quantity) == available + 1 < quantity

\* product.stock < item.quantity
StockTooLow(available, quantity) == available < quantity

\* one pass of the validation loop: product lookup, checks, price snapshot;
\* after the last item the order number is generated
CreateOrderItem(c) ==
    /\ pc[c] = "items"
    /\ LET item == req[c].items[loc[c].i]
           found == item.productId \in Products
       IN  IF ~found \/ ~isActive[item.productId]
           THEN Respond(c, "productUnavailable", 0)
           ELSE IF StockTooLow(stock[item.productId], item.quantity)
           THEN Respond(c, "insufficientStock", 0)
           ELSE LET orderItems == Append(loc[c].orderItems,
                                    [productId |-> item.productId,
                                     quantity |-> item.quantity,
                                     price |-> price[item.productId]])
                IN  /\ IF loc[c].i < Len(req[c].items)
                       THEN /\ loc' = [loc EXCEPT ![c].i = @ + 1,
                                                  ![c].orderItems = orderItems]
                            /\ UNCHANGED pc
                       ELSE /\ \E n \in OrderNumbers :
                                 loc' = [loc EXCEPT ![c].i = @ + 1,
                                                    ![c].orderItems = orderItems,
                                                    ![c].orderNumber = n]
                            /\ pc' = [pc EXCEPT ![c] = "createTx"]
                    /\ UNCHANGED <<req, resp>>
    /\ UNCHANGED <<conn, store, stock0, calls, updates>>

\* the order with its items priced again at the time of the insert
NewOrderRepriced(c) ==
    LET items == [k \in DOMAIN loc[c].orderItems |->
                     [loc[c].orderItems[k] EXCEPT
                         !.price = price[loc[c].orderItems[k].productId]]]
        subtotal == Subtotal(items)
    IN  [orderNumber |-> loc[c].orderNumber,
         userId |-> req[c].userId,
         addressId |-> req[c].addressId,
         totalAmount |-> TotalAmount(subtotal),
         shippingCost |-> ShippingCost(subtotal),
         taxAmount |-> TaxAmount(subtotal),
         paymentMethod |-> req[c].paymentMethod,
         status |-> InitialStatus,
         items |-> items]

NewOrder(c) ==
    LET subtotal == Subtotal(loc[c].orderItems)
    IN  [orderNumber |-> loc[c].orderNumber,
         userId |-> req[c].userId,
         addressId |-> req[c].addressId,
         totalAmount |-> TotalAmount(subtotal),
         shippingCost |-> ShippingCost(subtotal),
         taxAmount |-> TaxAmount(subtotal),
         paymentMethod |-> req[c].paymentMethod,
         status |-> InitialStatus,
         items |-> loc[c].orderItems]

\* the transaction: order with its items, then one stock decrement per item
CreateOrderCommit(c) ==
    /\ pc[c] = "createTx"
    /\ LET ws == CreateWrites(NewOrder(c), req[c].items)
       IN  \E abortAt \in 0..(Len(ws) + 1) :
              LET r == Transaction(Db, ws, abortAt)
              IN  /\ orders' = r.db.orders
                  /\ stock' = r.db.stock
                  /\ IF r.failed THEN Respond(c, "serverError", 0)
                     ELSE Respond(c, "created", Len(r.db.orders))
    /\ UNCHANGED <<conn, price, isActive, stock0, calls, updates>>

\* ------------------------------------------------------------------------
\* PATCH /:id/cancel  (cancelOrder)
\* ------------------------------------------------------------------------
FindOwned(os, id, userId) ==
    /\ id \in DOMAIN os
    /\ os[id].userId = userId

\* findFirst({ id, userId, status: 'PENDING' })
FindCancellable(os, id, userId) ==
    /\ id \in DOMAIN os
    /\ os[id].userId = userId
    /\ os[id].status = "PENDING"

\* the request arrives: authenticated user and order id
CancelOrderBegin(c) ==
    /\ pc[c] = "idle"
    /\ calls < MaxCalls
    /\ calls' = calls + 1
    /\ \E userId \in Users, id \in OrderIds :
          req' = [req EXCEPT ![c] = [NoReq EXCEPT !.op = "cancel",
                                        !.userId = userId, !.id = id]]
    /\ pc' = [pc EXCEPT ![c] = "cancelFind"]
    /\ UNCHANGED <<conn, store, stock0, loc, resp, updates>>

\* the precondition lookup, with the order's items
CancelOrderFind(c) ==
    /\ pc[c] = "cancelFind"
    /\ IF ~FindCancellable(orders, req[c].id, req[c].userId)
       THEN Respond(c, "notCancellable", req[c].id)
       ELSE /\ pc' = [pc EXCEPT ![c] = "cancelTx"]
            /\ loc' = [loc EXCEPT ![c] = [NoLoc EXCEPT
                                             !.orderItems = orders[req[c].id].items]]
            /\ UNCHANGED <<req, resp>>
    /\ UNCHANGED <<conn, store, stock0, calls, updates>>

\* the transaction: status to CANCELLED, then one stock increment per item
CancelOrderCommit(c) ==
    /\ pc[c] = "cancelTx"
    /\ LET ws == CancelWrites(req[c].id, loc[c].orderItems)
       IN  \E abortAt \in 0..(Len(ws) + 1) :
              LET r == Transaction(Db, ws, abortAt)
              IN  /\ orders' = r.db.orders
                  /\ stock' = r.db.stock
                  /\ IF r.failed THEN Respond(c, "serverError", req[c].id)
                     ELSE Respond(c, "cancelled", req[c].id)
    /\ UNCHANGED <<conn, price, isActive, stock0, calls, updates>>

\* ------------------------------------------------------------------------
\* PATCH /orders/:id/status  (admin updateOrderStatus)
\* ------------------------------------------------------------------------
UpdateOrderStatus ==
    /\ updates < MaxUpdates
    /\ updates' = updates + 1
    /\ \E id \in OrderIds, status \in Statuses :
          LET w == StatusWrite(id, status)
          IN  orders' = IF WriteThrows(Db, w) THEN orders ELSE ApplyWrite(Db, w).orders
    /\ UNCHANGED <<conn, stock, price, isActive, stock0, pc, req, loc, resp, calls>>

\* ------------------------------------------------------------------------
\* PATCH /products/bulk-update  (admin)
\* ------------------------------------------------------------------------
\* parseFloat(value) of a decimal numeral, in hundredths
ParseFloat(value) == value.units * Cents + value.hundredths

\* parseInt(value) of a decimal numeral: the digits before the point
ParseInt(value) == value.units

\* product.updateMany({ where: { id: { in: productIds } }, data })
UpdateMany(column, productIds, v) ==
    [p \in Products |-> IF p \in productIds THEN v ELSE column[p]]

BulkUpdate ==
    /\ updates < MaxUpdates
    /\ updates' = updates + 1
    /\ \E productIds \in BulkProductIds, action \in BulkActions, value \in BulkValues :
          CASE action = "activate" ->
                 /\ isActive' = UpdateMany(isActive, productIds, TRUE)
                 /\ UNCHANGED <<price, stock>>
            [] action = "deactivate" ->
                 /\ isActive' = UpdateMany(isActive, productIds, FALSE)
                 /\ UNCHANGED <<price, stock>>
            [] action = "updatePrice" ->
                 /\ price' = UpdateMany(price, productIds, ParseFloat(value))
                 /\ UNCHANGED <<isActive, stock>>
            [] action = "updateStock" ->
                 /\ stock' = UpdateMany(stock, productIds, ParseInt(value))
                 /\ UNCHANGED <<isActive, price>>
            [] OTHER -> UNCHANGED <<isActive, price, stock>>
    /\ UNCHANGED <<conn, orders, stock0, pc, req, loc, resp, calls>>

\* ------------------------------------------------------------------------
\* DatabaseConnection  (the connection manager)
\* ------------------------------------------------------------------------
NoTask == [kind |-> "none", pc |-> "idle", slept |-> <<>>, result |-> "none"]

RetryAllowedOnceMore(retries) == retries <= MaxRetries

\* this.connectionRetries < this.maxRetries
RetryAllowed(retries) == retries < MaxRetries

\* delay(2000 * this.connectionRetries)
BackoffDelay(retries) == BackoffUnit * retries

CounterOnSuccessKept(retries) == retries

\* this.connectionRetries = 0
CounterOnSuccess(retries) == 0

HealthAfterTestNoProbe(tk) == [tk EXCEPT !.pc = "idle", !.result = "true"]

\* healthCheck after its awaited testConnection has returned: the probe
HealthAfterTest(tk) == [tk EXCEPT !.pc = "probe"]

HasClientAlways == TRUE

\* this.prisma is a client: this.prisma.$connect() and this.prisma.$queryRaw
\* can be called (on null they throw a TypeError inside the try block)
HasClient == prisma # 0

AfterThrowUncaught(tk) == [tk EXCEPT !.pc = "idle", !.result = "throw"]

\* testConnection returns true to the call that awaits it
AfterSuccess(tk) ==
    CASE tk.kind = "test" -> [tk EXCEPT !.pc = "idle", !.result = "true"]
      [] tk.kind = "health" -> HealthAfterTest(tk)
      [] tk.kind = "tick" -> [tk EXCEPT !.pc = "idle", !.result = "done"]

\* testConnection throws: to its caller, into the catch of healthCheck
\* (return false), or into the catch of the interval callback
AfterThrow(tk) ==
    CASE tk.kind = "test" -> [tk EXCEPT !.pc = "idle", !.result = "throw"]
      [] tk.kind = "health" -> [tk EXCEPT !.pc = "idle", !.result = "false"]
      [] tk.kind = "tick" -> [tk EXCEPT !.pc = "idle", !.result = "done"]

\* a call of kind `kind` starts in task t and runs to its first await
Call(t, kind, at) ==
    /\ task[t].pc = "idle"
    /\ dbcalls < MaxDbCalls
    /\ dbcalls' = dbcalls + 1
    /\ task' = [task EXCEPT ![t] = [kind |-> kind, pc |-> at, slept |-> <<>>,
                                    result |-> IF at = "idle" THEN "done" ELSE "none"]]

\* getInstance when there is no client: a new client, and setupAutoReconnect
\* registers one more interval (with a client it returns the one it holds)
GetInstance ==
    /\ prisma = 0
    /\ handles < MaxHandles
    /\ handles' = handles + 1
    /\ prisma' = handles + 1
    /\ timers' = timers + 1
    /\ UNCHANGED <<shop, isConnected, connectionRetries, task, outage, dbcalls>>

\* a direct call of testConnection (server start-up)
TestConnectionBegin(t) ==
    /\ Call(t, "test", "attempt")
    /\ UNCHANGED <<shop, prisma, isConnected, connectionRetries, timers, handles, outage>>

\* $connect and SELECT 1 settle; with no client the call throws at once.  On
\* failure the catch block either counts a retry and sleeps, or rethrows
TestConnectionAttempt(t) ==
    /\ task[t].pc = "attempt"
    /\ \E ok \in BOOLEAN :
          /\ ok => HasClient
          /\ ~ok => ~HasClient \/ outage > 0
          /\ outage' = IF ~ok /\ HasClient THEN outage - 1 ELSE outage
          /\ IF ok
             THEN /\ isConnected' = TRUE
                  /\ connectionRetries' = CounterOnSuccess(connectionRetries)
                  /\ task' = [task EXCEPT ![t] = AfterSuccess(task[t])]
             ELSE /\ isConnected' = FALSE
                  /\ IF RetryAllowed(connectionRetries)
                     THEN /\ connectionRetries' = connectionRetries + 1
                          /\ task' = [task EXCEPT ![t].pc = "delay",
                                        ![t].slept = Append(@,
                                            BackoffDelay(connectionRetries + 1))]
                     ELSE /\ task' = [task EXCEPT ![t] = AfterThrow(task[t])]
                          /\ UNCHANGED connectionRetries
    /\ UNCHANGED <<shop, prisma, timers, handles, dbcalls>>

\* the backoff delay is over: return this.testConnection()
TestConnectionDelay(t) ==
    /\ task[t].pc = "delay"
    /\ task' = [task EXCEPT ![t].pc = "attempt"]
    /\ UNCHANGED <<shop, prisma, isConnected, connectionRetries, timers, handles,
                   outage, dbcalls>>

\* healthCheck is called: re-establish first if marked disconnected
HealthCheckBegin(t) ==
    /\ Call(t, "health", IF ~isConnected THEN "attempt" ELSE "probe")
    /\ UNCHANGED <<shop, prisma, isConnected, connectionRetries, timers, handles, outage>>

\* the SELECT 1 of healthCheck settles
HealthCheckProbe(t) ==
    /\ task[t].pc = "probe"
    /\ \E ok \in BOOLEAN :
          /\ ok => HasClient
          /\ ~ok => ~HasClient \/ outage > 0
          /\ outage' = IF ~ok /\ HasClient THEN outage - 1 ELSE outage
          /\ IF ok
             THEN /\ task' = [task EXCEPT ![t].pc = "idle", ![t].result = "true"]
                  /\ UNCHANGED isConnected
             ELSE /\ task' = [task EXCEPT ![t].pc = "idle", ![t].result = "false"]
                  /\ isConnected' = FALSE
    /\ UNCHANGED <<shop, prisma, connectionRetries, timers, handles, dbcalls>>

\* a registered interval fires: testConnection only if not connected
AutoReconnectTick(t) ==
    /\ timers > 0
    /\ Call(t, "tick", IF ~isConnected THEN "attempt" ELSE "idle")
    /\ UNCHANGED <<shop, prisma, isConnected, connectionRetries, timers, handles, outage>>

\* disconnect is called: with a client it awaits $disconnect
DisconnectBegin(t) ==
    /\ Call(t, "disconnect", IF prisma # 0 THEN "closing" ELSE "idle")
    /\ UNCHANGED <<shop, prisma, isConnected, connectionRetries, timers, handles, outage>>

\* $disconnect settles: isConnected = false if it resolved; finally prisma = null
DisconnectEnd(t) ==
    /\ task[t].pc = "closing"
    /\ \E ok \in BOOLEAN : isConnected' = IF ok THEN FALSE ELSE isConnected
    /\ prisma' = 0
    /\ task' = [task EXCEPT ![t].pc = "idle", ![t].result = "done"]
    /\ UNCHANGED <<shop, connectionRetries, timers, handles, outage, dbcalls>>

\* a pending await of task t settles
Settle(t) ==
    \/ TestConnectionAttempt(t)
    \/ TestConnectionDelay(t)
    \/ HealthCheckProbe(t)
    \/ DisconnectEnd(t)

\* ------------------------------------------------------------------------
\* Specification
\* ------------------------------------------------------------------------
InitHandlers ==
    /\ orders = <<>>
    /\ pc = [c \in Clients |-> "idle"]
    /\ req = [c \in Clients |-> NoReq]
    /\ loc = [c \in Clients |-> NoLoc]
    /\ resp = NoResp
    /\ calls = 0
    /\ updates = 0

\* the connection manager as its constructor leaves it
InitManager ==
    /\ prisma = 0
    /\ isConnected = FALSE
    /\ connectionRetries = 0
    /\ timers = 0
    /\ handles = 0
    /\ task = [t \in Tasks |-> NoTask]
    /\ dbcalls = 0

\* every product active, any stock of p1
Init ==
    /\ stock \in {f \in [Products -> 0..MaxStock] : f["p2"] = MaxStock}
    /\ stock0 = stock
    /\ price = CatalogPrice
    /\ isActive = [p \in Products |-> TRUE]
    /\ InitHandlers
    /\ InitManager
    /\ outage = 0

Next ==
    \/ \E c \in Clients : CreateOrderBegin(c, Carts1)
    \/ \E c \in Clients : CreateOrderItem(c)
    \/ \E c \in Clients : CreateOrderCommit(c)
    \/ \E c \in Clients : CancelOrderBegin(c)
    \/ \E c \in Clients : CancelOrderFind(c)
    \/ \E c \in Clients : CancelOrderCommit(c)
    \/ UpdateOrderStatus

Spec == Init /\ [][Next]_vars

\* any stock of p1, product p2 active or not
InitSeq ==
    /\ stock \in {f \in [Products -> 0..MaxStock] : f["p2"] = MaxStock}
    /\ stock0 = stock
    /\ price = CatalogPrice
    /\ isActive \in {f \in [Products -> BOOLEAN] : f["p1"]}
    /\ InitHandlers
    /\ InitManager
    /\ outage = 0

\* the calls of one client, one after the other, with carts of up to two lines
NextSeq ==
    \/ CreateOrderBegin("c1", Carts2)
    \/ CreateOrderItem("c1")
    \/ CreateOrderCommit("c1")
    \/ CancelOrderBegin("c1")
    \/ CancelOrderFind("c1")
    \/ CancelOrderCommit("c1")

SpecSeq == InitSeq /\ [][NextSeq]_vars

\* every product active and in full stock, no request yet
InitShop ==
    /\ stock = [p \in Products |-> MaxStock]
    /\ stock0 = stock
    /\ price = CatalogPrice
    /\ isActive = [p \in Products |-> TRUE]
    /\ InitHandlers

\* one client whose carts may carry any quantity, and the admin routes
InitAdmin ==
    /\ InitShop
    /\ InitManager
    /\ outage = 0

NextAdmin ==
    \/ CreateOrderBegin("c1", CartsAny)
    \/ CreateOrderItem("c1")
    \/ CreateOrderCommit("c1")
    \/ CancelOrderBegin("c1")
    \/ CancelOrderFind("c1")
    \/ CancelOrderCommit("c1")
    \/ UpdateOrderStatus
    \/ BulkUpdate

SpecAdmin == InitAdmin /\ [][NextAdmin]_vars

\* the manager as constructed; the data store may reject MaxOutage attempts
InitDb ==
    /\ InitShop
    /\ InitManager
    /\ outage = MaxOutage

NextDb ==
    \/ GetInstance
    \/ \E t \in Tasks : TestConnectionBegin(t)
    \/ \E t \in Tasks : TestConnectionAttempt(t)
    \/ \E t \in Tasks : TestConnectionDelay(t)
    \/ \E t \in Tasks : HealthCheckBegin(t)
    \/ \E t \in Tasks : HealthCheckProbe(t)
    \/ \E t \in Tasks : AutoReconnectTick(t)
    \/ \E t \in Tasks : DisconnectBegin(t)
    \/ \E t \in Tasks : DisconnectEnd(t)

SpecDb == InitDb /\ [][NextDb]_vars

\* the calls into the manager one after the other
NextDbSeq ==
    \/ GetInstance
    \/ TestConnectionBegin("t1")
    \/ TestConnectionAttempt("t1")
    \/ TestConnectionDelay("t1")
    \/ HealthCheckBegin("t1")
    \/ HealthCheckProbe("t1")
    \/ AutoReconnectTick("t1")
    \/ DisconnectBegin("t1")
    \/ DisconnectEnd("t1")

\* a pending promise or timer eventually settles
SpecDbSeq == InitDb /\ [][NextDbSeq]_vars /\ WF_vars(Settle("t1"))

\* ------------------------------------------------------------------------
\* Properties
\* ------------------------------------------------------------------------
RECURSIVE QuantityOf(_, _)
QuantityOf(items, p) ==
    IF items = <<>> THEN 0
    ELSE (IF Head(items).productId = p THEN Head(items).quantity ELSE 0)
         + QuantityOf(Tail(items), p)

RECURSIVE ActiveQuantity(_, _)
ActiveQuantity(os, p) ==
    IF os = <<>> THEN 0
    ELSE (IF Head(os).status # "CANCELLED" THEN QuantityOf(Head(os).items, p) ELSE 0)
         + ActiveQuantity(Tail(os), p)

\* client c takes a step of a createOrder call
CreateStep(c) ==
    \/ pc[c] = "idle" /\ pc'[c] = "items"
    \/ pc[c] = "idle" /\ pc' = pc /\ calls' # calls
    \/ pc[c] \in {"items", "createTx"} /\ (pc'[c] # pc[c] \/ loc'[c] # loc[c])

\* client c's createOrder call commits and is answered with the order
CreateSucceeds(c) == pc[c] = "createTx" /\ pc'[c] = "idle" /\ resp'.code = "created"

\* C1: for any interleaving of concurrent createOrder and cancelOrder calls
\* the stock of every product is non-negative in every reachable state.
StockNeverNegative == \A p \in Products : stock[p] >= 0

\* C2: a createOrder call that fails, at whatever step, leaves no order, no
\* order item and no stock change: every step of a createOrder call other
\* than its successful commit leaves the order table and the stock as they
\* were, and a failing step answers with an error.
CreateFailureLeavesNoTrace ==
    [][\A c \in Clients :
          CreateStep(c) /\ ~CreateSucceeds(c)
          => /\ orders' = orders
             /\ stock' = stock
             /\ pc'[c] = "idle" => resp'.code \in {"validation", "addressNotFound",
                    "productUnavailable", "insufficientStock", "serverError"}]_vars

CreateFailedInTransaction ==
    /\ resp = [code |-> "serverError", order |-> 0]
    /\ orders = <<>>
    /\ stock = stock0

\* C3: cancelOrder changes the status to CANCELLED and restores the stock of
\* every line item in one step or not at all: its lookup writes nothing, and
\* its transaction either sets CANCELLED and adds every item's quantity back,
\* or fails and leaves the status and the stock unchanged.
CancelIsAllOrNothing ==
    [][\A c \in Clients :
          /\ pc[c] = "cancelFind" /\ pc'[c] # pc[c]
             => orders' = orders /\ stock' = stock
          /\ pc[c] = "cancelTx" /\ pc'[c] # pc[c]
             => LET id == req[c].id
                IN  \/ /\ resp' = [code |-> "cancelled", order |-> id]
                       /\ orders' = [orders EXCEPT ![id].status = "CANCELLED"]
                       /\ \A p \in Products :
                             stock'[p] = stock[p] + QuantityOf(orders[id].items, p)
                    \/ /\ resp' = [code |-> "serverError", order |-> id]
                       /\ orders' = orders
                       /\ stock' = stock]_vars

CancelCommitted ==
    /\ resp.code = "cancelled"
    /\ orders[resp.order].status = "CANCELLED"
    /\ \A p \in Products : stock[p] = stock0[p] - ActiveQuantity(orders, p)

\* C4: for every product, stock equals the initial stock minus the quantities
\* of that product in the line items of all orders that are not CANCELLED.
StockMatchesActiveOrders ==
    \A p \in Products : stock[p] = stock0[p] - ActiveQuantity(orders, p)

\* C5: a successful createOrder of one line (P, q) followed, with nothing in
\* between, by the owner's cancelOrder of that order leaves every stock at
\* its value before the creation and the order CANCELLED.
CreateThenCancelRestores ==
    (/\ calls = 2
     /\ updates = 0
     /\ Len(orders) = 1
     /\ Len(orders[1].items) = 1
     /\ resp = [code |-> "cancelled", order |-> 1])
    => /\ stock = stock0
       /\ orders[1].status = "CANCELLED"
       /\ orders[1].items[1].quantity \in 1..stock0[orders[1].items[1].productId]

RoundTripDone ==
    /\ calls = 2
    /\ updates = 0
    /\ Len(orders) = 1
    /\ Len(orders[1].items) = 1
    /\ resp = [code |-> "cancelled", order |-> 1]
    /\ orders[1].items[1].quantity = MaxQty

\* C6: once a cancelOrder on an order has returned success, a cancelOrder
\* that looks the order up afterwards is refused as not cancellable and
\* changes neither the order table nor any stock.
SecondCancelRefused ==
    [][\A c \in Clients :
          (/\ pc[c] = "cancelFind"
           /\ pc'[c] # pc[c]
           /\ resp = [code |-> "cancelled", order |-> req[c].id])
          => /\ resp' = [code |-> "notCancellable", order |-> req[c].id]
             /\ orders' = orders
             /\ stock' = stock]_vars

\* an item of the cart asks for more than the stock of its product
ExceedsStock(items) ==
    \E k \in DOMAIN items :
       /\ items[k].productId \in Products
       /\ items[k].quantity > stock[items[k].productId]

\* C7: a createOrder whose cart has an item asking for more than the current
\* stock of its product creates no order and changes no stock, and when the
\* validation loop comes to that item (its product being active) the call
\* is answered with the insufficient-stock error.
InsufficientStockRejected ==
    [][\A c \in Clients :
          /\ (CreateStep(c) /\ pc[c] \in {"items", "createTx"}
                /\ ExceedsStock(req[c].items))
             => /\ orders' = orders
                /\ stock' = stock
                /\ ~CreateSucceeds(c)
          /\ (CreateStep(c) /\ pc[c] = "items"
                /\ req[c].items[loc[c].i].productId \in Products
                /\ isActive[req[c].items[loc[c].i].productId]
                /\ req[c].items[loc[c].i].quantity
                      > stock[req[c].items[loc[c].i].productId])
             => /\ resp' = [code |-> "insufficientStock", order |-> 0]
                /\ pc'[c] = "idle"]_vars

SecondLineRejected ==
    /\ resp.code = "insufficientStock"
    /\ Len(orders) = 1
    /\ \A p \in Products : stock[p] = stock0[p] - ActiveQuantity(orders, p)

\* C8: a cancelOrder on an order that does not exist, belongs to another
\* user or is not PENDING gets the same not-cancellable answer in all three
\* cases and leaves every order and every stock unchanged.
NotCancellableIsUniform ==
    [][\A c \in Clients :
          (/\ pc[c] = "cancelFind"
           /\ pc'[c] # pc[c]
           /\ \/ req[c].id \notin DOMAIN orders
              \/ orders[req[c].id].userId # req[c].userId
              \/ orders[req[c].id].status # "PENDING")
          => /\ resp'.code = "notCancellable"
             /\ pc'[c] = "idle"
             /\ orders' = orders
             /\ stock' = stock]_vars

CancelRefused ==
    /\ resp.code = "notCancellable"
    /\ resp.order \in DOMAIN orders
    /\ orders[resp.order].status \notin {"PENDING", "CANCELLED"}

\* C9: all persisted orders have pairwise distinct order numbers.
OrderNumbersDistinct ==
    \A i \in DOMAIN orders : \A j \in DOMAIN orders :
       i # j => orders[i].orderNumber # orders[j].orderNumber

SameNumberInFlight ==
    \E c \in Clients :
       /\ pc[c] = "createTx"
       /\ Len(orders) = 1
       /\ loc[c].orderNumber = orders[1].orderNumber

\* C10: every order has shipping cost 0 if its subtotal is at least 500 and
\* 50 otherwise.
ShippingRule ==
    \A i \in DOMAIN orders :
       LET X == Subtotal(orders[i].items)
       IN  /\ orders[i].shippingCost = 0 <=> X >= 500 * 100
           /\ orders[i].shippingCost # 0 => orders[i].shippingCost = 50 * 100

ShippingBoundary ==
    \E i \in DOMAIN orders : \E j \in DOMAIN orders :
       /\ Subtotal(orders[i].items) = 500 * 100
       /\ orders[i].shippingCost = 0
       /\ Subtotal(orders[j].items) = 499 * 100
       /\ orders[j].shippingCost = 50 * 100

\* C11: every persisted order has totalAmount = subtotal + shippingCost +
\* taxAmount, the subtotal being the sum of stored unit price times quantity
\* over its own items and taxAmount 18% of the subtotal rounded to hundredths;
\* this holds in every reachable state, so also after any later cancelOrder
\* or updateOrderStatus.
TotalIsSumOfParts ==
    \A i \in DOMAIN orders :
       LET X == Subtotal(orders[i].items)
       IN  /\ orders[i].taxAmount = (X * 18 + 50) \div 100
           /\ orders[i].totalAmount = X + orders[i].shippingCost + orders[i].taxAmount

\* an order with a non-zero tax whose status was changed after its creation
TotalAfterStatusChange ==
    \E i \in DOMAIN orders :
       /\ orders[i].status # "PENDING"
       /\ orders[i].taxAmount > 0
       /\ orders[i].totalAmount > Subtotal(orders[i].items)

\* task t is inside testConnection, called directly
InTestConnection(t) ==
    /\ task[t].kind = "test"
    /\ task[t].pc \in {"attempt", "delay"}

\* C12: a testConnection call on a client, while the data store will reject
\* fewer further attempts than the retries the counter still allows (N
\* rejections from a counter of 0 with N < 5 being the case), eventually
\* returns true; an attempt that fails is followed by a backoff delay before
\* the next attempt, and at the return the connected flag is true and the
\* retry counter is 0.
TestConnectionRecovers ==
    /\ [][\A t \in Tasks :
            /\ (InTestConnection(t) /\ task[t].pc = "attempt"
                    /\ task'[t].pc # "idle" /\ task'[t] # task[t])
               => /\ task'[t].pc = "delay"
                  /\ Len(task'[t].slept) = Len(task[t].slept) + 1
                  /\ task'[t].slept[Len(task'[t].slept)] > 0
            /\ (InTestConnection(t) /\ task'[t].pc = "attempt" /\ task'[t] # task[t])
               => task[t].pc = "delay"
            /\ (InTestConnection(t) /\ task'[t].result = "true")
               => isConnected' /\ connectionRetries' = 0]_vars
    /\ \A t \in Tasks :
          (InTestConnection(t) /\ prisma # 0
              /\ connectionRetries + outage < MaxRetries)
          ~> (task[t].pc = "idle" /\ task[t].result = "true")

\* four rejected attempts, each followed by a delay, then success
RecoveredAfterFourFailures ==
    \E t \in Tasks :
       /\ task[t].kind = "test"
       /\ task[t].result = "true"
       /\ Len(task[t].slept) = MaxRetries - 1
       /\ isConnected
       /\ connectionRetries = 0

\* C13: a testConnection call does not retry forever: it sleeps at most 5
\* times and it ends; when every attempt fails and the call began with the
\* retry counter at 0 it throws after exactly 5 retries and the connected
\* flag is false.
RetriesAreBounded ==
    /\ [](\A t \in Tasks :
             /\ Len(task[t].slept) <= MaxRetries
             /\ (/\ task[t].kind = "test"
                 /\ task[t].result = "throw"
                 /\ task[t].slept # <<>>
                 /\ task[t].slept[1] = BackoffDelay(1))
                => Len(task[t].slept) = MaxRetries /\ ~isConnected)
    /\ \A t \in Tasks : InTestConnection(t) ~> task[t].pc = "idle"

\* six attempts rejected by the data store, five delays, then the throw
GaveUpAfterFiveRetries ==
    \E t \in Tasks :
       /\ task[t].kind = "test"
       /\ task[t].result = "throw"
       /\ Len(task[t].slept) = MaxRetries
       /\ outage = MaxOutage - (MaxRetries + 1)
       /\ ~isConnected

\* the tasks that are inside a testConnection retry sequence
Retrying == {t \in Tasks : task[t].pc \in {"attempt", "delay"}}

\* C14: while the manager is disconnected at most one testConnection retry
\* sequence is in progress, whatever healthCheck calls and reconnection
\* ticks occur concurrently.
AtMostOneRetrySequence == ~isConnected => Cardinality(Retrying) <= 1

\* C15: when disconnect returns, whether $disconnect resolved or threw, the
\* manager holds no client and its connected flag is false, and the next
\* getInstance makes a client that was never held before.
DisconnectClears ==
    [][/\ \A t \in Tasks :
             (task[t].kind = "disconnect" /\ task'[t].kind = "disconnect"
                 /\ task[t].pc # "idle" /\ task'[t].pc = "idle")
             => prisma' = 0 /\ ~isConnected'
       /\ (prisma = 0 /\ prisma' # 0) => prisma' > handles]_vars

\* task t starts a healthCheck call in this step
HealthCheckStarts(t) ==
    /\ task[t].pc = "idle"
    /\ task'[t] # task[t]
    /\ task'[t].kind = "health"

\* C16: healthCheck returns true only from a probe that succeeded on the
\* client during that call; called while marked disconnected it first goes
\* through testConnection, and called while marked connected it goes to the
\* probe and from the probe only to its return.
HealthCheckProbes ==
    [][\A t \in Tasks :
          /\ (task'[t].kind = "health" /\ task'[t].result = "true"
                 /\ task'[t] # task[t])
             => task[t].pc = "probe" /\ prisma # 0
          /\ (HealthCheckStarts(t) /\ ~isConnected) => task'[t].pc = "attempt"
          /\ (HealthCheckStarts(t) /\ isConnected)
             => task'[t].pc = "probe" /\ task'[t].slept = <<>>
          /\ task[t].pc = "probe" => task'[t].pc \in {"probe", "idle"}]_vars

\* a healthCheck that re-established after a rejected attempt and then
\* probed successfully
HealthyAfterReconnect ==
    \E t \in Tasks :
       /\ task[t].kind = "health"
       /\ task[t].result = "true"
       /\ task[t].slept # <<>>

\* C17: CANCELLED is terminal: an order whose status is CANCELLED keeps that
\* status in every later state, whatever cancelOrder and admin
\* updateOrderStatus calls follow.
CancelledIsTerminal ==
    [][\A i \in DOMAIN orders :
          orders[i].status = "CANCELLED" => orders'[i].status = "CANCELLED"]_vars

\* C18: every persisted order item has quantity > 0 (createOrder rejects a
\* cart with an item of quantity zero or negative, creating no order).
ItemQuantitiesPositive ==
    \A i \in DOMAIN orders : \A k \in DOMAIN orders[i].items :
       orders[i].items[k].quantity > 0

OrderItemsImmutable ==
    [][/\ \A i \in DOMAIN orders : orders'[i].items = orders[i].items
       /\ \A c \in Clients :
             /\ (pc[c] = "items" /\ loc'[c].orderItems # loc[c].orderItems)
                => LET item == req[c].items[loc[c].i]
                   IN  loc'[c].orderItems = Append(loc[c].orderItems,
                           [productId |-> item.productId,
                            quantity |-> item.quantity,
                            price |-> price[item.productId]])
             /\ (pc[c] = "createTx" /\ Len(orders') > Len(orders))
                => orders'[Len(orders')].items = loc[c].orderItems]_vars

\* a cancelled order whose item keeps a price the catalog no longer has
PriceKeptAfterCatalogChange ==
    \E i \in DOMAIN orders :
       /\ orders[i].status = "CANCELLED"
       /\ orders[i].items[1].price = CatalogPrice[orders[i].items[1].productId]
       /\ price[orders[i].items[1].productId] # orders[i].items[1].price

\* a cancelOrder call of client c commits its transaction in this step
CancelSucceeds(c) ==
    /\ pc[c] = "cancelTx"
    /\ pc'[c] = "idle"
    /\ resp' = [code |-> "cancelled", order |-> req[c].id]

\* C21: cancelOrder writes CANCELLED only to an order that is PENDING at the
\* write: when the admin has moved the order to CONFIRMED, SHIPPED or
\* DELIVERED since the precondition read, the cancellation does not commit.
CancelNeedsPendingAtWrite ==
    [][\A c \in Clients :
          CancelSucceeds(c)
          => orders[req[c].id].status \notin {"CONFIRMED", "SHIPPED", "DELIVERED"}]_vars

\* C22: within one testConnection call the delay before the k-th retry is
\* 2000 ms times k: the delays of a call are 2000, 4000, 6000, 8000, 10000,
\* strictly increasing.
BackoffDelaysAreMultiples ==
    \A t \in Tasks : \A k \in DOMAIN task[t].slept :
       /\ k <= 5
       /\ task[t].slept[k] = 2000 * k

\* task t starts the callback of a reconnection interval in this step
TickStarts(t) ==
    /\ task[t].pc = "idle"
    /\ task'[t] # task[t]
    /\ task'[t].kind = "tick"

\* C23: a reconnection tick calls testConnection only when the connected
\* flag is false at the tick and does nothing when it is true; a failure of
\* its testConnection is caught, so the callback never ends by throwing, and
\* no step removes a registered interval.
TickIsSilent ==
    [][/\ \A t \in Tasks :
             /\ (TickStarts(t) /\ ~isConnected) => task'[t].pc = "attempt"
             /\ (TickStarts(t) /\ isConnected)
                => /\ task'[t].pc = "idle"
                   /\ UNCHANGED <<prisma, isConnected, connectionRetries, outage>>
             /\ task'[t].kind = "tick" => task'[t].result # "throw"
       /\ timers' >= timers]_vars

\* a tick whose testConnection used up the retries and was caught, with the
\* next tick already trying again
TickFailedThenNextTick ==
    \E t \in Tasks : \E u \in Tasks :
       /\ task[t].kind = "tick"
       /\ task[t].result = "done"
       /\ task[t].slept # <<>>
       /\ task[u].kind = "tick"
       /\ task[u].pc = "attempt"
       /\ connectionRetries = MaxRetries

\* C24: a createOrder that runs alone and names one product on several lines
\* is accepted only if the stock of the product is at least the sum of the
\* quantities of those lines.
DuplicateLinesWithinStock ==
    [][\A c \in Clients :
          CreateSucceeds(c)
          => \A p \in Products : QuantityOf(req[c].items, p) <= stock[p]]_vars

\* C25: with cancelOrder calls alone (no admin status update), the stock of
\* an order's items is released at most once: a cancelOrder never commits,
\* releasing stock, on an order that another cancelOrder has already set to
\* CANCELLED since both read it as PENDING.
StockReleasedOnce ==
    [][\A c \in Clients :
          (CancelSucceeds(c) /\ updates = 0)
          => /\ orders[req[c].id].status # "CANCELLED"
             /\ \A p \in Products : stock'[p] <= stock0[p]]_vars

\* C26: a direct testConnection call that ends by throwing has made the full
\* 5 backoff retries first, however earlier calls ended.
ThrowsOnlyAfterFullRetries ==
    \A t \in Tasks :
       (task[t].kind = "test" /\ task[t].result = "throw")
       => Len(task[t].slept) = MaxRetries

\* C27: at most one reconnection interval is registered at any time, for
\* any sequence of getInstance and disconnect calls.
AtMostOneTimer == timers <= 1

\* C28: the retry counter stays within 0..maxRetries in every reachable
\* state, also when testConnection invocations of several calls interleave
\* at their awaits.
RetryCounterInRange == connectionRetries \in 0..MaxRetries

\* two retry sequences share the counter, which has reached its maximum
CounterAtMaxWithTwoRetrying ==
    /\ connectionRetries = MaxRetries
    /\ Cardinality(Retrying) = 2
    /\ \A t \in Tasks : task[t].slept # <<>>

\* C29: healthCheck never throws: a failure of its testConnection or of its
\* probe makes it return false, and at each return of false the connected
\* flag is false.
HealthCheckNeverThrows ==
    [][\A t \in Tasks :
          /\ task'[t].kind = "health" => task'[t].result # "throw"
          /\ (task[t].kind = "health" /\ task[t].pc # "idle" /\ task'[t].pc = "idle")
             => task'[t].result \in {"true", "false"}
          /\ (task'[t].kind = "health" /\ task'[t].result = "false"
                 /\ task'[t] # task[t])
             => ~isConnected']_vars

\* a healthCheck that found the retries used up and one whose probe failed
HealthCheckReturnedFalse ==
    \E t \in Tasks : \E u \in Tasks :
       /\ task[t].kind = "health"
       /\ task[t].result = "false"
       /\ Len(task[t].slept) = MaxRetries
       /\ task[u].kind = "health"
       /\ task[u].result = "false"
       /\ task[u].slept = <<>>
       /\ ~isConnected

\* C30: while the manager holds no client, testConnection and healthCheck
\* do not make one: only getInstance sets the client, no healthCheck returns
\* true and no testConnection returns true, and a testConnection call ends
\* by throwing unless getInstance is called meanwhile.
NoReconnectWithoutGetInstance ==
    /\ [][/\ (prisma = 0 /\ prisma' # 0)
             => /\ handles' = handles + 1
                /\ task' = task
          /\ \A t \in Tasks :
                (prisma = 0 /\ task'[t] # task[t]
                    /\ task'[t].kind \in {"test", "health"})
                => task'[t].result # "true"]_vars
    /\ \A t \in Tasks :
          (InTestConnection(t) /\ prisma = 0)
          ~> (prisma # 0 \/ (task[t].pc = "idle" /\ task[t].result = "throw"))

\* after a disconnect, a testConnection call that threw without a client
ThrewAfterDisconnect ==
    \E t \in Tasks :
       /\ task[t].kind = "test"
       /\ task[t].result = "throw"
       /\ Len(task[t].slept) = MaxRetries
       /\ prisma = 0
       /\ handles > 0

====
